---- MODULE Spec2Model ----
(***************************************************************************)
(* MuxLikePlayer (react-hls-player/src/components/MuxLikePlayer.js): the   *)
(* playback session and telemetry state machine of the player component.   *)
(*                                                                         *)
(* React semantics the model keeps:                                        *)
(*  - a state setter updates the component state at once (sessionId,       *)
(*    error, isLoading, analytics) but the handlers and effect cleanups     *)
(*    keep the values of the render that created them (rSid, rAn) until    *)
(*    the next Render;                                                     *)
(*  - Render commits the pending state and flushes the effects whose       *)
(*    dependencies changed: first every cleanup, in declaration order,     *)
(*    then every effect body;                                              *)
(*  - a state setter called after unmount does nothing;                    *)
(*  - network responses, re-renders and browser/engine notifications       *)
(*    interleave freely (one UI thread, asynchronous completions).         *)
(* A Date.now() read inside a state updater is taken at the time of the    *)
(* handler that queued it.                                                 *)
(***************************************************************************)
EXTENDS Integers, Sequences, FiniteSets, TLC

\* ---------------------------------------------------------------- bounds
MaxSessions == 2      \* session-open requests the backend answers with an id
MaxNotes == 1         \* browser / engine notifications delivered in a run
MaxLog == 2           \* analytics POSTs issued in a run
MaxTime == 2          \* Date.now() runs over 1..MaxTime
MaxPos == 1           \* floor(video.currentTime) runs over 0..MaxPos
MaxStale == 1         \* superseded initializeVideo runs still awaiting a response
MaxLoads == 2         \* Hls instances HLSPlayer creates in a run

\* ------------------------------------------------------ program constants
HeartbeatInterval == 10

\* hls.levels of the stream: the bitrate of each rendition, level 0 first
LevelBitrate == <<500000, 1500000, 2500000>>
LevelIdx == 0 .. (Len(LevelBitrate) - 1)

\* what the runtime offers: Hls.isSupported() and a non-empty
\* video.canPlayType('application/vnd.apple.mpegurl')
Modes == [hls : BOOLEAN, native : BOOLEAN]

\* the strategy every load ended up with, had native playback been tried first
Strategy_NativeFirst(m) ==
  IF m.native THEN "native" ELSE IF m.hls THEN "hls" ELSE "none"

\* the strategy every load ended up with, were the engine used unconditionally
Strategy_EngineAlways(m) == "hls"

\* if (Hls.isSupported()) ... else if (video.canPlayType(...)) ... else ...
Strategy(m) ==
  IF m.hls THEN "hls" ELSE IF m.native THEN "native" ELSE "none"

\* media-element events whose handler is () => trackEvent(type [, extras])
\* and whose notification follows no change of volume or playback rate
SimpleEvents == {"play", "pause", "ended", "seeked"}

\* video.volume in percent, video.playbackRate
Volumes == {0, 100}
Rates == {0, 1}

\* the media element as created: full volume, normal rate, muted = false
Element0 == [volume |-> 100, rate |-> 1, muted |-> FALSE]

EventType(dom) ==
  CASE dom = "play" -> "play"
    [] dom = "pause" -> "pause"
    [] dom = "ended" -> "ended"
    [] dom = "seeking" -> "seeking"
    [] dom = "seeked" -> "seeked"
    [] dom = "waiting" -> "buffering_start"
    [] dom = "canplay" -> "buffering_end"
    [] dom = "timeupdate" -> "heartbeat"
    [] dom = "volumechange" -> "volume_change"
    [] dom = "ratechange" -> "playback_rate_change"
    [] dom = "error" -> "video_error"

VARIABLES
  mode,        \* the playback capabilities of the runtime
  mounted,     \* the component is mounted
  now,         \* Date.now()
  pos,         \* Math.floor(video.currentTime)
  elem,        \* video.volume, video.playbackRate, video.muted
  notes,       \* number of browser / engine notifications delivered so far
  sessionId,   \* useState sessionId, 0 = null
  error,       \* useState error, "" = null
  isLoading,   \* useState isLoading
  analytics,   \* useState analytics; bufferingStart 0 = undefined / null
  dirty,       \* a state update is pending: a re-render is scheduled
  anDirty,     \* setAnalytics produced a new object since the last render
  rSid,        \* sessionId of the committed render (captured by closures)
  rAn,         \* analytics of the committed render (captured by closures)
  videoShown,  \* the committed render shows <video>: videoRef.current # null
  lsn,         \* media listeners: "none" | "current" | "stale" element
  initPc,      \* initializeVideo: "asset" | "session" | "done"
  initSid,     \* sessionId captured by the trackEvent initializeVideo closes over
  nextSid,     \* next id the backend hands out
  stale,       \* the initializeVideo runs of superseded effects that still await
               \* a response: the request awaited, the sessionId captured
  engines,     \* every Hls instance created
  hlsRef,      \* hlsRef.current: index into engines, 0 = null
  nativeLsn,   \* loadedmetadata listeners: the sessionId each one captured
  log,         \* analytics events POSTed, in the order issued
  inflight,    \* indices of log whose POST has not completed
  caught,      \* the latest console.error('Failed to track event'): the session
               \* of the event and the number of events issued by then
  notified,    \* the indices of log onAnalytics was called with, in call order
  player,      \* HLSPlayer: the state as set by its setters (hlsInstance 0 = null)
  committed,   \* HLSPlayer: the state of the committed render, which the
               \* handlers close over and the buttons are rendered from
  instances,   \* HLSPlayer: every Hls instance created
  media,       \* HLSPlayer: the element's src (native path) and paused flag
  playerUp     \* HLSPlayer is mounted

stateVars == <<sessionId, error, isLoading, analytics, dirty, anDirty>>
renderVars == <<rSid, rAn, videoShown, lsn>>
initVars == <<initPc, initSid, nextSid, stale>>
engineVars == <<engines, hlsRef, nativeLsn>>
netVars == <<log, inflight, caught, notified>>
envVars == <<mode, mounted, now, pos, elem, notes>>
playerVars == <<player, committed, instances, media, playerUp>>
muxVars == <<envVars, stateVars, renderVars, initVars, engineVars, netVars>>
vars == <<muxVars, playerVars>>

\* HLSPlayer's useState initial values
Player0 ==
  [hlsUrl |-> "", currentUrl |-> "", isPlaying |-> FALSE, isLoading |-> FALSE,
   error |-> "", hlsInstance |-> 0]

Analytics0 == [playTime |-> 0, bufferingTime |-> 0, totalEvents |-> 0, bufferingStart |-> 0]

\* ------------------------------------------------------------- trackEvent
\* videoRef.current?.currentTime || 0
CurrentTime(shown) == IF shown THEN pos ELSE 0

\* x || dflt for a number x
Or(x, dflt) == IF x = 0 THEN dflt ELSE x

\* the eventData trackEvent builds for the element el: the handler's extras
\* are spread first, the envelope keys after them, so an extra named volume,
\* muted or playback_rate is replaced by the envelope's value; d keeps the
\* extras the envelope does not name
Payload(sid, type, data, shown, el) ==
  [sid |-> sid, type |-> type, ts |-> now, ct |-> CurrentTime(shown),
   rate |-> IF shown THEN Or(el.rate, 1) ELSE 1,
   vol |-> IF shown THEN Or(el.volume, 100) ELSE 100,
   muted |-> shown /\ el.muted,
   d |-> data]

EventData(sid, type, data, shown) == Payload(sid, type, data, shown, elem)

\* trackEvent without its "if (!sessionId) return" guard
TrackEvent_Unguarded(l, sid, type, data, shown) ==
  Append(l, EventData(sid, type, data, shown))

\* trackEvent handing its event to the network ahead of the earlier ones
TrackEvent_Prepending(l, sid, type, data, shown) ==
  IF sid = 0 THEN l ELSE <<EventData(sid, type, data, shown)>> \o l

\* the log after trackEvent(type, data) of a closure that captured sid
TrackEvent(l, sid, type, data, shown) ==
  IF sid = 0 THEN l ELSE Append(l, EventData(sid, type, data, shown))

\* every POST issued by this step is in flight
Issue(l) == inflight \cup ((Len(log) + 1) .. Len(l))

\* a state setter after unmount is a no-op
Set(old, new) == IF mounted THEN new ELSE old

\* ------------------------------------------------------------------- Init
Init ==
  /\ mode \in Modes
  /\ mounted = TRUE
  /\ now = 1
  /\ pos = 0
  /\ elem = Element0
  /\ notes = 0
  /\ sessionId = 0
  /\ error = ""
  /\ isLoading = TRUE
  /\ analytics = Analytics0
  /\ dirty = FALSE
  /\ anDirty = FALSE
  /\ rSid = 0
  /\ rAn = Analytics0
  /\ videoShown = TRUE
  /\ lsn = "none"
  /\ initPc = "asset"
  /\ initSid = 0
  /\ nextSid = 1
  /\ stale = <<>>
  /\ engines = <<>>
  /\ hlsRef = 0
  /\ nativeLsn = <<>>
  /\ log = <<>>
  /\ inflight = {}
  /\ caught = [sid |-> 0, len |-> 0]
  /\ notified = <<>>
  /\ player = Player0
  /\ committed = Player0
  /\ instances = <<>>
  /\ media = [src |-> "", paused |-> TRUE]
  /\ playerUp = TRUE

\* the pending-render flag after the state setters of a step
MarkDirty ==
  dirty' = (dirty \/ anDirty' \/ sessionId' # sessionId \/ error' # error
              \/ isLoading' # isLoading)

\* -------------------------------------------------------- initializeVideo
AssetOutcomes == {"ready", "processing", "failed"}

\* the response handled without the "asset.status !== 'ready'" check
AssetResp_NoStatusCheck(outcome) ==
  /\ initPc = "asset"
  /\ initPc' = IF outcome = "failed" THEN "done" ELSE "session"
  /\ error' = IF outcome = "failed" THEN Set(error, "api_failed") ELSE error
  /\ UNCHANGED <<sessionId, isLoading, analytics, anDirty>>
  /\ MarkDirty
  /\ UNCHANGED <<playerVars, envVars, renderVars, initSid, nextSid, stale, engineVars, netVars>>

\* the response to GET /v1/video/assets/{assetId}
AssetResp(outcome) ==
  /\ initPc = "asset"
  /\ initPc' = IF outcome = "ready" THEN "session" ELSE "done"
  /\ error' = CASE outcome = "ready" -> error
                [] outcome = "processing" -> Set(error, "not_ready")
                [] outcome = "failed" -> Set(error, "api_failed")
  /\ UNCHANGED <<sessionId, isLoading, analytics, anDirty>>
  /\ MarkDirty
  /\ UNCHANGED <<playerVars, envVars, renderVars, initSid, nextSid, stale, engineVars, netVars>>

\* new Hls(...) with its handlers: tsid is the sessionId their trackEvent
\* captured, sid the session.id the same run has just stored
NewEngine(tsid, sid) ==
  [alive |-> TRUE, tsid |-> tsid, sid |-> sid, parsed |-> FALSE, fatal |-> FALSE]

\* the response to POST /v1/analytics/sessions and the rest of initializeVideo
SessionFailed ==
  /\ initPc = "session"
  /\ initPc' = "done"
  /\ error' = Set(error, "api_failed")
  /\ UNCHANGED <<sessionId, isLoading, analytics, anDirty>>
  /\ MarkDirty
  /\ UNCHANGED <<playerVars, envVars, renderVars, initSid, nextSid, stale, engineVars, netVars>>

\* setSessionId(session.id) and the strategy selection that follows it, in a
\* run whose trackEvent captured tsid
SessionStored(tsid) ==
  /\ sessionId' = Set(sessionId, nextSid)
  /\ nextSid' = nextSid + 1
  /\ LET video == mounted /\ videoShown IN
     /\ engines' = IF video /\ Strategy(mode) = "hls"
                     THEN Append(engines, NewEngine(tsid, nextSid)) ELSE engines
     /\ hlsRef' = IF video /\ Strategy(mode) = "hls" THEN Len(engines) + 1 ELSE hlsRef
     /\ nativeLsn' = IF video /\ Strategy(mode) = "native"
                       THEN Append(nativeLsn, tsid) ELSE nativeLsn
     /\ pos' = IF video /\ Strategy(mode) = "native" THEN 0 ELSE pos
     /\ error' = IF video /\ Strategy(mode) = "none" THEN "unsupported" ELSE error
  /\ UNCHANGED <<isLoading, analytics, anDirty>>
  /\ MarkDirty
  /\ UNCHANGED <<playerVars, mode, mounted, now, elem, notes, renderVars, initSid, netVars>>

SessionOpened ==
  /\ initPc = "session"
  /\ initPc' = "done"
  /\ UNCHANGED stale
  /\ SessionStored(initSid)

\* ------------------------------------------------------ superseded runs
\* the run k of a superseded effect goes on after its cleanup: nothing
\* cancels its awaits
Drop(k) == SubSeq(stale, 1, k - 1) \o SubSeq(stale, k + 1, Len(stale))

StaleAssetResp(k, outcome) ==
  /\ k \in DOMAIN stale /\ stale[k].pc = "asset"
  /\ stale' = IF outcome = "ready" THEN [stale EXCEPT ![k].pc = "session"] ELSE Drop(k)
  /\ error' = CASE outcome = "ready" -> error
                [] outcome = "processing" -> Set(error, "not_ready")
                [] outcome = "failed" -> Set(error, "api_failed")
  /\ UNCHANGED <<sessionId, isLoading, analytics, anDirty>>
  /\ MarkDirty
  /\ UNCHANGED <<playerVars, envVars, renderVars, initPc, initSid, nextSid, engineVars, netVars>>

StaleSessionFailed(k) ==
  /\ k \in DOMAIN stale /\ stale[k].pc = "session"
  /\ stale' = Drop(k)
  /\ error' = Set(error, "api_failed")
  /\ UNCHANGED <<sessionId, isLoading, analytics, anDirty>>
  /\ MarkDirty
  /\ UNCHANGED <<playerVars, envVars, renderVars, initPc, initSid, nextSid, engineVars, netVars>>

StaleSessionOpened(k) ==
  /\ k \in DOMAIN stale /\ stale[k].pc = "session"
  /\ stale' = Drop(k)
  /\ UNCHANGED initPc
  /\ SessionStored(stale[k].tsid)

\* ------------------------------------------------- stream-engine handlers
Alive == {e \in 1 .. Len(engines) : engines[e].alive}

\* hls.on(Hls.Events.MANIFEST_PARSED, ...)
ManifestParsed(e) ==
  /\ e \in Alive /\ ~engines[e].parsed
  /\ engines' = [engines EXCEPT ![e].parsed = TRUE]
  /\ isLoading' = Set(isLoading, FALSE)
  /\ log' = TrackEvent(log, engines[e].tsid, "video_ready", <<>>, mounted /\ videoShown)
  /\ inflight' = Issue(log')
  /\ UNCHANGED <<caught, notified>>
  /\ notes' = notes + 1
  /\ UNCHANGED <<sessionId, error, analytics, anDirty>>
  /\ MarkDirty
  /\ UNCHANGED <<playerVars, mode, mounted, now, pos, elem, renderVars, initVars, hlsRef, nativeLsn>>

\* hls.on(Hls.Events.ERROR, ...)
EngineError(e, fatal) ==
  /\ e \in Alive
  /\ engines' = [engines EXCEPT ![e].fatal = @ \/ fatal]
  /\ error' = IF fatal THEN Set(error, "fatal") ELSE error
  /\ log' = IF fatal
              THEN TrackEvent(log, engines[e].tsid, "error", <<>>, mounted /\ videoShown)
              ELSE log
  /\ inflight' = Issue(log')
  /\ UNCHANGED <<caught, notified>>
  /\ notes' = notes + 1
  /\ UNCHANGED <<sessionId, isLoading, analytics, anDirty>>
  /\ MarkDirty
  /\ UNCHANGED <<playerVars, mode, mounted, now, pos, elem, renderVars, initVars, hlsRef, nativeLsn>>

\* the bitrate of the level played before the switch
BitrateOf_Previous(level) == LevelBitrate[1]

\* hls.levels[data.level]?.bitrate
BitrateOf(level) == LevelBitrate[level + 1]

QualityData(level) == <<level, BitrateOf(level)>>

\* hls.on(Hls.Events.LEVEL_SWITCHED, ...)
LevelSwitched(e, level) ==
  /\ e \in Alive /\ engines[e].parsed
  /\ log' = TrackEvent(log, engines[e].tsid, "quality_change", QualityData(level),
                       mounted /\ videoShown)
  /\ inflight' = Issue(log')
  /\ UNCHANGED <<caught, notified>>
  /\ notes' = notes + 1
  /\ UNCHANGED <<playerVars, mode, mounted, now, pos, elem, stateVars, renderVars, initVars, engineVars>>

RECURSIVE TrackAll(_, _, _, _)
\* every registered loadedmetadata listener calls its own trackEvent
TrackAll(l, sids, type, shown) ==
  IF sids = <<>> THEN l
  ELSE TrackAll(TrackEvent(l, Head(sids), type, <<>>, shown), Tail(sids), type, shown)

\* video.addEventListener('loadedmetadata', ...): native playback
LoadedMetadata ==
  /\ nativeLsn # <<>>
  /\ isLoading' = Set(isLoading, FALSE)
  /\ log' = TrackAll(log, nativeLsn, "video_ready", mounted /\ videoShown)
  /\ inflight' = Issue(log')
  /\ UNCHANGED <<caught, notified>>
  /\ notes' = notes + 1
  /\ UNCHANGED <<sessionId, error, analytics, anDirty>>
  /\ MarkDirty
  /\ UNCHANGED <<playerVars, mode, mounted, now, pos, elem, renderVars, initVars, engineVars>>

\* -------------------------------------------------- media-element handlers
\* the handlers run with the sessionId and analytics.bufferingStart of the
\* render that attached them; videoRef.current is the committed element
Shown == mounted /\ videoShown

\* play, pause, ended, seeked
SimpleEvent(dom) ==
  /\ lsn # "none"
  /\ log' = TrackEvent(log, rSid, EventType(dom),
                       IF dom = "seeked" THEN <<pos>> ELSE <<>>, Shown)
  /\ inflight' = Issue(log')
  /\ UNCHANGED <<caught, notified>>
  /\ notes' = notes + 1
  /\ UNCHANGED <<playerVars, mode, mounted, now, pos, elem, stateVars, renderVars, initVars, engineVars>>

\* volumechange, after the volume or the mute flag changed:
\* trackEvent('volume_change', { volume: video.volume, muted: video.muted })
VolumeChange(v, m) ==
  /\ lsn # "none"
  /\ <<v, m>> # <<elem.volume, elem.muted>>
  /\ elem' = [elem EXCEPT !.volume = v, !.muted = m]
  /\ log' = Append(log, Payload(rSid, EventType("volumechange"), <<>>, Shown, elem'))
  /\ inflight' = Issue(log')
  /\ UNCHANGED <<caught, notified>>
  /\ notes' = notes + 1
  /\ UNCHANGED <<playerVars, mode, mounted, now, pos, stateVars, renderVars, initVars, engineVars>>

\* ratechange, after the playback rate changed:
\* trackEvent('playback_rate_change', { playback_rate: video.playbackRate })
RateChange(r) ==
  /\ lsn # "none"
  /\ r # elem.rate
  /\ elem' = [elem EXCEPT !.rate = r]
  /\ log' = Append(log, Payload(rSid, EventType("ratechange"), <<>>, Shown, elem'))
  /\ inflight' = Issue(log')
  /\ UNCHANGED <<caught, notified>>
  /\ notes' = notes + 1
  /\ UNCHANGED <<playerVars, mode, mounted, now, pos, stateVars, renderVars, initVars, engineVars>>

\* seeking: () => trackEvent('seeking', { seek_to: video.currentTime })
Seeking(p) ==
  /\ lsn # "none"
  /\ pos' = p
  /\ log' = Append(log, [EventData(rSid, "seeking", <<p>>, Shown) EXCEPT
                            !.ct = IF Shown THEN p ELSE 0])
  /\ inflight' = Issue(log')
  /\ UNCHANGED <<caught, notified>>
  /\ notes' = notes + 1
  /\ UNCHANGED <<playerVars, mode, mounted, now, elem, stateVars, renderVars, initVars, engineVars>>

\* waiting: trackEvent('buffering_start'); bufferingStart: Date.now()
Waiting ==
  /\ lsn # "none"
  /\ log' = TrackEvent(log, rSid, "buffering_start", <<>>, Shown)
  /\ inflight' = Issue(log')
  /\ UNCHANGED <<caught, notified>>
  /\ analytics' = Set(analytics, [analytics EXCEPT !.bufferingStart = now])
  /\ anDirty' = (anDirty \/ mounted)
  /\ notes' = notes + 1
  /\ UNCHANGED <<sessionId, error, isLoading>>
  /\ MarkDirty
  /\ UNCHANGED <<playerVars, mode, mounted, now, pos, elem, renderVars, initVars, engineVars>>

\* the window's duration taken off the total instead of added to it
CloseWindow_Subtracting(an, bufferingStart) ==
  IF bufferingStart # 0
    THEN [an EXCEPT !.bufferingTime = @ - (now - bufferingStart),
                    !.bufferingStart = 0]
    ELSE an

\* the analytics state after the canplay handler that captured bufferingStart
CloseWindow(an, bufferingStart) ==
  IF bufferingStart # 0
    THEN [an EXCEPT !.bufferingTime = @ + (now - bufferingStart),
                    !.bufferingStart = 0]
    ELSE an

\* canplay: trackEvent('buffering_end'); close the window the closure sees
CanPlay ==
  /\ lsn # "none"
  /\ log' = TrackEvent(log, rSid, "buffering_end", <<>>, Shown)
  /\ inflight' = Issue(log')
  /\ UNCHANGED <<caught, notified>>
  /\ analytics' = Set(analytics, CloseWindow(analytics, rAn.bufferingStart))
  /\ anDirty' = (anDirty \/ (mounted /\ rAn.bufferingStart # 0))
  /\ notes' = notes + 1
  /\ UNCHANGED <<sessionId, error, isLoading>>
  /\ MarkDirty
  /\ UNCHANGED <<playerVars, mode, mounted, now, pos, elem, renderVars, initVars, engineVars>>

\* a timeupdate handler without the boundary test
OnBoundary_Always(p) == TRUE

\* Math.floor(video.currentTime) % 10 === 0
OnBoundary(p) == p % HeartbeatInterval = 0

\* timeupdate while playing: the position moved on by less than a second
\* (adv = 0) or into the next second (adv = 1)
TimeUpdate(adv) ==
  /\ lsn # "none"
  /\ pos' = pos + adv
  /\ log' = IF OnBoundary(pos')
              THEN Append(log, [EventData(rSid, "heartbeat", <<pos'>>, Shown) EXCEPT
                                  !.ct = IF Shown THEN pos' ELSE 0])
              ELSE log
  /\ inflight' = Issue(log')
  /\ UNCHANGED <<caught, notified>>
  /\ notes' = notes + 1
  /\ UNCHANGED <<playerVars, mode, mounted, now, elem, stateVars, renderVars, initVars, engineVars>>

\* error: trackEvent('video_error'); setError('Video playback error')
VideoError ==
  /\ lsn # "none"
  /\ log' = TrackEvent(log, rSid, "video_error", <<>>, Shown)
  /\ inflight' = Issue(log')
  /\ UNCHANGED <<caught, notified>>
  /\ error' = Set(error, "playback")
  /\ notes' = notes + 1
  /\ UNCHANGED <<sessionId, isLoading, analytics, anDirty>>
  /\ MarkDirty
  /\ UNCHANGED <<playerVars, mode, mounted, now, pos, elem, renderVars, initVars, engineVars>>

\* ------------------------------------------------------ analytics delivery
\* the POST of log[i] completes, a failure surfacing as a playback error
\* instead of being caught inside trackEvent
PostDone_Uncaught(i, ok) ==
  /\ i \in inflight
  /\ inflight' = inflight \ {i}
  /\ caught' = caught
  /\ notified' = IF ok THEN Append(notified, i) ELSE notified
  /\ analytics' = IF ok THEN Set(analytics, [analytics EXCEPT !.totalEvents = @ + 1])
                  ELSE analytics
  /\ anDirty' = (anDirty \/ (ok /\ mounted))
  /\ error' = IF ok THEN error ELSE Set(error, "api_failed")
  /\ UNCHANGED <<sessionId, isLoading>>
  /\ MarkDirty
  /\ UNCHANGED <<playerVars, envVars, renderVars, initVars, engineVars, log>>

\* the POST of log[i] completes: on success totalEvents + 1 and
\* onAnalytics(eventData); a failure is caught and logged
PostDone(i, ok) ==
  /\ i \in inflight
  /\ inflight' = inflight \ {i}
  /\ caught' = IF ok THEN caught ELSE [sid |-> log[i].sid, len |-> Len(log)]
  /\ notified' = IF ok THEN Append(notified, i) ELSE notified
  /\ analytics' = IF ok THEN Set(analytics, [analytics EXCEPT !.totalEvents = @ + 1])
                  ELSE analytics
  /\ anDirty' = (anDirty \/ (ok /\ mounted))
  /\ UNCHANGED <<sessionId, error, isLoading>>
  /\ MarkDirty
  /\ UNCHANGED <<playerVars, envVars, renderVars, initVars, engineVars, log>>

\* --------------------------------------------------------- effect cleanups
\* return () => { if (hlsRef.current) hlsRef.current.destroy(); }
DestroyEngine(es) ==
  IF hlsRef # 0 THEN [es EXCEPT ![hlsRef].alive = FALSE] ELSE es

\* a session_end payload that reports the time elapsed as play time
SessionEndData_Elapsed(an) == <<now, an.bufferingTime, an.totalEvents>>

SessionEndData(an) == <<an.playTime, an.bufferingTime, an.totalEvents>>

\* return () => { if (sessionId) trackEvent('session_end', {...}) }: the
\* cleanup of the render that captured sid and an
SessionEnd(l, sid, an, shown) ==
  TrackEvent(l, sid, "session_end", SessionEndData(an), shown)

\* deps [sessionId, analytics, trackEvent] of the session_end effect
SessionEndDepsChanged == sessionId # rSid \/ anDirty

\* deps [sessionId, trackEvent, analytics.bufferingStart] of the listener effect
ListenerDepsChanged ==
  sessionId # rSid \/ analytics.bufferingStart # rAn.bufferingStart

\* deps [assetId, apiKey, onReady, onError, apiCall, trackEvent] of the
\* initialization effect: trackEvent changes with sessionId
InitDepsChanged == sessionId # rSid

\* ----------------------------------------------------------------- Render
\* React re-renders with the pending state and flushes the effects
Render ==
  /\ mounted /\ dirty
  /\ LET shown == (error = "") IN
     /\ videoShown' = shown
     /\ engines' = IF InitDepsChanged THEN DestroyEngine(engines) ELSE engines
     /\ lsn' = IF ListenerDepsChanged
                 THEN (IF shown /\ sessionId # 0 THEN "current" ELSE "none")
                 ELSE (IF lsn = "current" /\ ~shown THEN "stale" ELSE lsn)
     /\ log' = IF SessionEndDepsChanged THEN SessionEnd(log, rSid, rAn, shown) ELSE log
     /\ inflight' = Issue(log')
     /\ UNCHANGED <<caught, notified>>
  /\ rSid' = sessionId
  /\ rAn' = analytics
  /\ anDirty' = FALSE
  \* the initialization effect runs again: setIsLoading(true); setError(null)
  /\ initPc' = IF InitDepsChanged THEN "asset" ELSE initPc
  /\ initSid' = IF InitDepsChanged THEN sessionId ELSE initSid
  /\ isLoading' = IF InitDepsChanged THEN TRUE ELSE isLoading
  /\ error' = IF InitDepsChanged THEN "" ELSE error
  /\ dirty' = (isLoading' # isLoading \/ error' # error)
  \* a run of the previous effect that still awaits a response goes on
  /\ stale' = IF InitDepsChanged /\ initPc # "done"
                THEN Append(stale, [pc |-> initPc, tsid |-> initSid]) ELSE stale
  /\ UNCHANGED <<playerVars, envVars, sessionId, analytics, nextSid, hlsRef, nativeLsn>>

\* the parent re-renders the player with another assetId, no state update
\* pending: the initialization effect is cleaned up and runs again, the
\* other effects keep their dependencies
ReplaceInputs ==
  /\ mounted /\ ~dirty
  /\ engines' = DestroyEngine(engines)
  /\ stale' = IF initPc # "done"
                THEN Append(stale, [pc |-> initPc, tsid |-> initSid]) ELSE stale
  /\ initPc' = "asset"
  /\ initSid' = rSid
  /\ isLoading' = TRUE
  /\ error' = ""
  /\ dirty' = (isLoading' # isLoading \/ error' # error)
  /\ UNCHANGED <<playerVars, envVars, sessionId, analytics, anDirty, renderVars, nextSid, hlsRef,
                 nativeLsn, netVars>>

\* the component unmounts: every effect cleanup runs, refs are already null
Unmount ==
  /\ mounted
  /\ mounted' = FALSE
  /\ engines' = DestroyEngine(engines)
  /\ lsn' = "none"
  /\ log' = SessionEnd(log, rSid, rAn, FALSE)
  /\ inflight' = Issue(log')
  /\ UNCHANGED <<caught, notified>>
  /\ UNCHANGED <<playerVars, mode, now, pos, elem, notes, stateVars, rSid, rAn, videoShown, initVars,
                 hlsRef, nativeLsn>>

TickTo(limit) ==
  /\ now < limit
  /\ now' = now + 1
  /\ UNCHANGED <<playerVars, mode, mounted, pos, elem, notes, stateVars, renderVars, initVars,
                 engineVars, netVars>>

Tick == TickTo(MaxTime)

\* ------------------------------------------------------------------- Next
\* notifications of the stream engine (adaptive path) and of native playback
NotifyEngine ==
  \/ \E e \in 1 .. Len(engines) : ManifestParsed(e)
  \/ \E e \in 1 .. Len(engines), fatal \in BOOLEAN : EngineError(e, fatal)
  \/ \E e \in 1 .. Len(engines), level \in LevelIdx : LevelSwitched(e, level)
  \/ LoadedMetadata

\* notifications of the media element handled by () => trackEvent(...)
NotifyMedia ==
  \/ \E dom \in SimpleEvents : SimpleEvent(dom)
  \/ VideoError

\* notifications that follow the viewer's use of the volume and rate controls
NotifyControls ==
  \/ \E v \in Volumes, m \in BOOLEAN : VolumeChange(v, m)
  \/ \E r \in Rates : RateChange(r)

\* stall notifications of the media element
NotifyBuffer ==
  \/ Waiting
  \/ CanPlay

\* position notifications of the media element
NotifyPlayhead ==
  \/ \E p \in 0 .. MaxPos : Seeking(p)
  \/ \E adv \in 0 .. 1 : pos + adv <= MaxPos /\ TimeUpdate(adv)

\* the steps the component takes whatever the environment delivers, short of
\* re-rendering and unmounting
Running ==
  \/ \E outcome \in AssetOutcomes : AssetResp(outcome)
  \/ SessionFailed
  \/ nextSid <= MaxSessions /\ SessionOpened
  \/ \E i \in inflight, ok \in BOOLEAN : PostDone(i, ok)

\* the component's own steps while fewer than cap POSTs have been issued
Steps(cap) ==
  \/ Running
  \/ Len(log) < cap /\ Render
  \/ Len(log) < cap /\ Unmount

\* every notification, the clock standing still: at most MaxNotes of them,
\* and one more of the engine's (a level switch follows a parsed manifest)
Next ==
  \/ Steps(MaxLog)
  \/ notes < MaxNotes + 1 /\ Len(log) < MaxLog /\ NotifyEngine
  \/ notes < MaxNotes /\ Len(log) < MaxLog /\ NotifyMedia
  \/ notes < MaxNotes /\ Len(log) < MaxLog /\ NotifyControls
  \/ notes < MaxNotes /\ Len(log) < MaxLog /\ NotifyBuffer
  \/ notes < MaxNotes /\ Len(log) < MaxLog /\ NotifyPlayhead

Spec == Init /\ [][Next]_vars

\* the slices below deliver one kind of notification, one notification and
\* one POST further than Spec
SliceNotes == MaxNotes + 1
SliceLog == MaxLog + 1

\* the stream engine's notifications only
NextEngine ==
  \/ Steps(SliceLog)
  \/ notes < SliceNotes /\ Len(log) < SliceLog /\ NotifyEngine

SpecEngine == Init /\ [][NextEngine]_vars

\* stalls, with the clock running
NextBuffer ==
  \/ Steps(SliceLog)
  \/ Tick
  \/ notes < SliceNotes /\ Len(log) < SliceLog /\ NotifyBuffer

SpecBuffer == Init /\ [][NextBuffer]_vars

\* the volume and rate controls
NextControls ==
  \/ Steps(SliceLog)
  \/ notes < SliceNotes /\ Len(log) < SliceLog /\ NotifyControls

SpecControls == Init /\ [][NextControls]_vars

\* stalls with the clock running, on a runtime that supports hls.js, while
\* the backend answers the first session-open request only
InitStall == Init /\ mode = [hls |-> TRUE, native |-> FALSE]

NextStall ==
  \/ \E outcome \in AssetOutcomes : AssetResp(outcome)
  \/ SessionFailed
  \/ nextSid = 1 /\ SessionOpened
  \/ \E i \in inflight, ok \in BOOLEAN : PostDone(i, ok)
  \/ Len(log) < SliceLog /\ Render
  \/ Len(log) < SliceLog /\ Unmount
  \/ Tick
  \/ notes < SliceNotes /\ Len(log) < SliceLog /\ NotifyBuffer

SpecStall == InitStall /\ [][NextStall]_vars

\* the parent replaces the player's inputs while requests are in flight; no
\* notification is delivered
NextReplace ==
  \/ Steps(SliceLog)
  \/ Len(stale) < MaxStale /\ ReplaceInputs
  \/ \E k \in DOMAIN stale, outcome \in AssetOutcomes : StaleAssetResp(k, outcome)
  \/ \E k \in DOMAIN stale : StaleSessionFailed(k)
  \/ \E k \in DOMAIN stale : nextSid <= MaxSessions /\ StaleSessionOpened(k)

SpecReplace == Init /\ [][NextReplace]_vars

\* playback position
NextPlayhead ==
  \/ Steps(SliceLog)
  \/ notes < SliceNotes /\ Len(log) < SliceLog /\ NotifyPlayhead

SpecPlayhead == Init /\ [][NextPlayhead]_vars

\* a stall followed by repeated canplay notifications: as SpecStall, with room
\* for one more notification and one more event
NextClose ==
  \/ \E outcome \in AssetOutcomes : AssetResp(outcome)
  \/ SessionFailed
  \/ nextSid = 1 /\ SessionOpened
  \/ \E i \in inflight, ok \in BOOLEAN : PostDone(i, ok)
  \/ Len(log) < SliceLog + 1 /\ Render
  \/ Len(log) < SliceLog + 1 /\ Unmount
  \/ Tick
  \/ notes < SliceNotes + 1 /\ Len(log) < SliceLog + 1 /\ NotifyBuffer

SpecClose == InitStall /\ [][NextClose]_vars

\* playback position on a runtime that supports hls.js, while the backend
\* answers the first session-open request only
NextBeat ==
  \/ \E outcome \in AssetOutcomes : AssetResp(outcome)
  \/ SessionFailed
  \/ nextSid = 1 /\ SessionOpened
  \/ \E i \in inflight, ok \in BOOLEAN : PostDone(i, ok)
  \/ Len(log) < SliceLog /\ Render
  \/ Len(log) < SliceLog /\ Unmount
  \/ notes < SliceNotes /\ Len(log) < SliceLog /\ NotifyPlayhead

SpecBeat == InitStall /\ [][NextBeat]_vars

\* ---------------------------------------------------------------- scenario
\* asset ready, playback starts, a stall of 3 time units, 12 more time units
\* of playback, teardown: the notifications in order, each with its time
StallLength == 3
PlayLength == 12
ScnMaxLog == 9

ScnScript ==
  <<[t |-> 1, n |-> "ready"], [t |-> 1, n |-> "play"], [t |-> 2, n |-> "waiting"],
    [t |-> 2 + StallLength, n |-> "canplay"]>>
  \o [k \in 1 .. PlayLength |-> [t |-> 2 + StallLength + k, n |-> "timeupdate"]]

ScnEnd == 2 + StallLength + PlayLength

\* the next scripted notification, delivered at its time
ScnNotify ==
  /\ notes < Len(ScnScript)
  /\ now = ScnScript[notes + 1].t
  /\ LET n == ScnScript[notes + 1].n IN
     \/ n = "ready" /\ \E e \in 1 .. Len(engines) : ManifestParsed(e)
     \/ n = "ready" /\ LoadedMetadata
     \/ n = "play" /\ SimpleEvent("play")
     \/ n = "waiting" /\ Waiting
     \/ n = "canplay" /\ CanPlay
     \/ n = "timeupdate" /\ TimeUpdate(1)

\* a pending re-render is committed before the clock moves on
ScnTick ==
  ~dirty /\ TickTo(IF notes < Len(ScnScript) THEN ScnScript[notes + 1].t ELSE ScnEnd)

ScnUnmount ==
  /\ notes = Len(ScnScript)
  /\ now = ScnEnd
  /\ Unmount

\* the asset is ready and sessions open; the analytics endpoint accepts no
\* delivery (best effort), so no totalEvents update feeds back into the run
ScnRunning ==
  \/ AssetResp("ready")
  \/ nextSid <= MaxSessions /\ SessionOpened
  \/ \E i \in inflight : PostDone(i, FALSE)

NextScn ==
  \/ ScnRunning
  \/ Len(log) < ScnMaxLog /\ Render
  \/ Len(log) < ScnMaxLog /\ ScnNotify
  \/ ScnTick
  \/ ScnUnmount

SpecScn == Init /\ [][NextScn]_vars

\* =============================================================== HLSPlayer
\* the contents of the URL input: empty, whitespace only, two stream URLs
Urls == {"", " ", "a", "b"}

\* sampleUrl
SampleUrl == "a"

\* a guard that takes only the empty string for a missing URL
Blank_EmptyOnly(u) == u = ""

\* hlsUrl.trim()
Trim(u) == IF u = " " THEN "" ELSE u

\* !hlsUrl.trim()
Blank(u) == Trim(u) = ""

\* the messages of setError, by the place that sets them
Messages ==
  {"", "invalid_url", "network", "media", "fatal", "native", "unsupported",
   "play_failed"}

\* Hls.ErrorTypes as told apart by the ERROR handler's switch
ErrorTypes == {"network", "media", "other"}

FatalMessage(type) ==
  CASE type = "network" -> "network" [] type = "media" -> "media" [] OTHER -> "fatal"

\* a state setter called after the unmount changes nothing
SetPlayer(new) == IF playerUp THEN new ELSE player

\* hlsInstance.destroy() where the closure holds an instance
Destroy(is, i) == IF i # 0 THEN [is EXCEPT ![i].alive = FALSE] ELSE is

\* the instances that were created and not destroyed
AliveInstances == {i \in DOMAIN instances : instances[i].alive}

\* onChange of the URL input: setHlsUrl(e.target.value); setError('')
HandleUrlChange(u) ==
  /\ playerUp
  /\ u # player.hlsUrl
  /\ player' = [player EXCEPT !.hlsUrl = u, !.error = ""]
  /\ UNCHANGED <<muxVars, committed, instances, media, playerUp>>

\* setHlsUrl(sampleUrl); setError('')
FillSampleUrl ==
  /\ playerUp
  /\ player.hlsUrl # SampleUrl \/ player.error # ""
  /\ player' = [player EXCEPT !.hlsUrl = SampleUrl, !.error = ""]
  /\ UNCHANGED <<muxVars, committed, instances, media, playerUp>>

\* loadAndPlay of the committed render: it closes over that render's hlsUrl
\* and hlsInstance; no await precedes any of its statements, so the state
\* updates take effect together. The <video> element is rendered
\* unconditionally, so videoRef.current is set while the component is mounted.
LoadAndPlay ==
  /\ playerUp
  /\ IF Blank(committed.hlsUrl)
       THEN /\ player' = [player EXCEPT !.error = "invalid_url"]
            /\ UNCHANGED <<instances, media>>
       ELSE LET destroyed == Destroy(instances, committed.hlsInstance) IN
            CASE Strategy(mode) = "hls" ->
                   /\ instances' = Append(destroyed,
                                          [url |-> committed.hlsUrl, alive |-> TRUE,
                                           parsed |-> FALSE, emitted |-> FALSE])
                   /\ player' = [player EXCEPT !.isLoading = TRUE, !.error = "",
                                               !.hlsInstance = Len(instances) + 1]
                   /\ UNCHANGED media
              [] Strategy(mode) = "native" ->
                   /\ instances' = destroyed
                   /\ media' = [media EXCEPT !.src = committed.hlsUrl]
                   /\ player' = [player EXCEPT !.isLoading = FALSE, !.error = "",
                                               !.currentUrl = committed.hlsUrl]
              [] OTHER ->
                   /\ instances' = destroyed
                   /\ player' = [player EXCEPT !.isLoading = FALSE,
                                               !.error = "unsupported"]
                   /\ UNCHANGED media
  /\ UNCHANGED <<muxVars, committed, playerUp>>

\* disabled={isLoading || !hlsUrl.trim()} of the committed render
LoadDisabled == committed.isLoading \/ Blank(committed.hlsUrl)

\* a click on "Load Stream"
ClickLoad == ~LoadDisabled /\ LoadAndPlay

\* video.play().then(() => setIsPlaying(true)).catch(() => setIsPlaying(false)),
\* the promise settled within the step
AutoPlay(p, ok) == [p EXCEPT !.isPlaying = ok]

\* hls.on(Hls.Events.MANIFEST_PARSED, ...) of instance i, created by a
\* loadAndPlay whose hlsUrl was instances[i].url
PlayerManifestParsed(i, ok) ==
  /\ i \in AliveInstances /\ ~instances[i].parsed
  /\ instances' = [instances EXCEPT ![i].parsed = TRUE, ![i].emitted = TRUE]
  /\ player' = SetPlayer(AutoPlay([player EXCEPT !.currentUrl = instances[i].url,
                                                 !.isLoading = FALSE], ok))
  /\ media' = IF ok THEN [media EXCEPT !.paused = FALSE] ELSE media
  /\ UNCHANGED <<muxVars, committed, playerUp>>

\* an ERROR handler that leaves isLoading alone
PlayerEngineError_KeepsLoading(i, fatal, type) ==
  /\ i \in AliveInstances
  /\ instances' = [instances EXCEPT ![i].emitted = TRUE]
  /\ player' = SetPlayer(IF fatal THEN [player EXCEPT !.error = FatalMessage(type)]
                                  ELSE player)
  /\ UNCHANGED <<muxVars, committed, media, playerUp>>

\* hls.on(Hls.Events.ERROR, ...) of instance i
PlayerEngineError(i, fatal, type) ==
  /\ i \in AliveInstances
  /\ instances' = [instances EXCEPT ![i].emitted = TRUE]
  /\ player' = SetPlayer(IF fatal
                           THEN [player EXCEPT !.isLoading = FALSE,
                                               !.error = FatalMessage(type)]
                           ELSE [player EXCEPT !.isLoading = FALSE])
  /\ UNCHANGED <<muxVars, committed, media, playerUp>>

\* the loadedmetadata listener of the native branch
PlayerLoadedMetadata(ok) ==
  /\ playerUp /\ media.src # ""
  /\ player' = AutoPlay(player, ok)
  /\ media' = IF ok THEN [media EXCEPT !.paused = FALSE] ELSE media
  /\ player' # player \/ media' # media
  /\ UNCHANGED <<muxVars, committed, instances, playerUp>>

\* the error listener of the native branch
PlayerNativeError ==
  /\ playerUp /\ media.src # ""
  /\ player' = [player EXCEPT !.error = "native", !.isLoading = FALSE]
  /\ player' # player
  /\ UNCHANGED <<muxVars, committed, instances, media, playerUp>>

\* togglePlayPause of the committed render; play() settles within the step
TogglePlayPause(ok) ==
  /\ playerUp
  /\ committed.currentUrl # "" /\ ~committed.isLoading
  /\ IF media.paused
       THEN /\ media' = IF ok THEN [media EXCEPT !.paused = FALSE] ELSE media
            /\ player' = IF ok THEN [player EXCEPT !.isPlaying = TRUE]
                               ELSE [player EXCEPT !.error = "play_failed"]
            /\ player' # player \/ media' # media
       ELSE /\ ok
            /\ media' = [media EXCEPT !.paused = TRUE]
            /\ player' = [player EXCEPT !.isPlaying = FALSE]
  /\ UNCHANGED <<muxVars, committed, instances, playerUp>>

\* onEnded / onPause of the element: setIsPlaying(false)
HandleVideoPause ==
  /\ playerUp /\ ~media.paused
  /\ media' = [media EXCEPT !.paused = TRUE]
  /\ player' = [player EXCEPT !.isPlaying = FALSE]
  /\ UNCHANGED <<muxVars, committed, instances, playerUp>>

\* React commits the pending state; the effect with deps [hlsInstance] is
\* cleaned up with the instance the previous render held
PlayerRender ==
  /\ playerUp /\ committed # player
  /\ committed' = player
  /\ instances' = IF committed.hlsInstance # player.hlsInstance
                    THEN Destroy(instances, committed.hlsInstance) ELSE instances
  /\ UNCHANGED <<muxVars, player, media, playerUp>>

\* unmount: the effect cleanup of the committed render
PlayerUnmount ==
  /\ playerUp
  /\ playerUp' = FALSE
  /\ instances' = Destroy(instances, committed.hlsInstance)
  /\ UNCHANGED <<muxVars, player, committed, media>>

\* what the user and the engines can do to a rendered HLSPlayer
PlayerSteps ==
  \/ \E u \in Urls : HandleUrlChange(u)
  \/ FillSampleUrl
  \/ \E i \in DOMAIN instances, ok \in BOOLEAN : PlayerManifestParsed(i, ok)
  \/ \E i \in DOMAIN instances, fatal \in BOOLEAN, type \in ErrorTypes :
       PlayerEngineError(i, fatal, type)
  \/ \E ok \in BOOLEAN : PlayerLoadedMetadata(ok)
  \/ PlayerNativeError
  \/ \E ok \in BOOLEAN : TogglePlayPause(ok)
  \/ HandleVideoPause
  \/ PlayerRender
  \/ PlayerUnmount

\* the player as used through its buttons
NextPlayer ==
  \/ PlayerSteps
  \/ Len(instances) < MaxLoads /\ ClickLoad

SpecPlayer == Init /\ [][NextPlayer]_vars

\* loading only: URL input, loads, the notifications of the instances on a
\* runtime whose autoplay is prevented, re-render and unmount
LoadSteps ==
  \/ \E u \in Urls : HandleUrlChange(u)
  \/ \E i \in DOMAIN instances : PlayerManifestParsed(i, FALSE)
  \/ \E i \in DOMAIN instances, fatal \in BOOLEAN : PlayerEngineError(i, fatal, "network")
  \/ PlayerNativeError
  \/ PlayerRender
  \/ PlayerUnmount

\* loadAndPlay called whatever the state of the button
NextLoad ==
  \/ LoadSteps
  \/ Len(instances) < MaxLoads /\ LoadAndPlay

SpecLoad == Init /\ [][NextLoad]_vars

\* the first notification of an instance that has emitted none
InstanceSettles(i) ==
  /\ i \in DOMAIN instances /\ ~instances[i].emitted
  /\ \/ PlayerManifestParsed(i, FALSE)
     \/ \E fatal \in BOOLEAN : PlayerEngineError(i, fatal, "network")

\* loads through the button, where every instance that is not destroyed
\* first emits MANIFEST_PARSED or ERROR
NextSettle ==
  \/ LoadSteps
  \/ Len(instances) < MaxLoads /\ ClickLoad

SpecSettle ==
  /\ Init /\ [][NextSettle]_vars
  /\ \A i \in 1 .. MaxLoads : WF_vars(InstanceSettles(i))

\* =================================================================== claims
\* the indices of log holding an event of the given type
OfType(type) == {i \in DOMAIN log : log[i].type = type}

\* the session ids the backend has returned so far
Opened == 1 .. (nextSid - 1)

RECURSIVE Replay(_, _, _)
\* the reference aggregator over an event log: a buffering_start opens a
\* window unless one is open, a buffering_end closes the open window and
\* adds its duration, an unmatched buffering_end adds nothing
Replay(l, open, total) ==
  IF l = <<>> THEN [open |-> open, total |-> total]
  ELSE LET e == Head(l) IN
       CASE e.type = "buffering_start" ->
              Replay(Tail(l), IF open = 0 THEN e.ts ELSE open, total)
         [] e.type = "buffering_end" ->
              Replay(Tail(l), 0, IF open # 0 THEN total + (e.ts - open) ELSE total)
         [] OTHER -> Replay(Tail(l), open, total)

RefBufferingTime == Replay(log, 0, 0).total
RefOpenWindow == Replay(log, 0, 0).open

\* C1: at most one session_end event is ever issued with a given session id.
C1_AtMostOneSessionEnd ==
  \A s \in Opened :
    Cardinality({i \in OfType("session_end") : log[i].sid = s}) <= 1

\* C2: the cumulative bufferingTime equals the sum of the durations of the
\* matched waiting/canplay windows; an unmatched canplay adds nothing.
C2_BufferingTimeIsSumOfWindows ==
  analytics.bufferingTime = RefBufferingTime

Beats == SelectSeq(log, LAMBDA e : e.type \in {"heartbeat", "seeking"})

\* C3: during continuous playback (no seek in between) the timeupdate
\* notifications received within one boundary second yield at most one
\* heartbeat.
C3_OneHeartbeatPerBoundary ==
  \A i \in 1 .. (Len(Beats) - 1) :
    ~ /\ Beats[i].type = "heartbeat"
      /\ Beats[i + 1].type = "heartbeat"
      /\ Beats[i].sid = Beats[i + 1].sid
      /\ Beats[i].d = Beats[i + 1].d

\* C4: media listeners are attached and analytics events are POSTed only
\* with a session id that a session-open request has returned.
C4_ActiveOnlyAfterOpen ==
  /\ \A i \in DOMAIN log : log[i].sid \in Opened
  /\ lsn # "none" => rSid \in Opened
  /\ (nativeLsn # <<>> \/ engines # <<>>) => Opened # {}

C4_Witness ==
  /\ lsn = "current"
  /\ log # <<>>

ScnDone == ~mounted /\ notes = Len(ScnScript)

\* the types of the events issued with session id sid, in order
TypesOf(sid) ==
  LET evs == SelectSeq(log, LAMBDA e : e.sid = sid) IN [i \in DOMAIN evs |-> evs[i].type]

\* video_ready, play, buffering_start, buffering_end, heartbeat (1 or more), session_end
ScnExpected(types) ==
  /\ Len(types) >= 6
  /\ SubSeq(types, 1, 4) = <<"video_ready", "play", "buffering_start", "buffering_end">>
  /\ \A i \in 5 .. (Len(types) - 1) : types[i] = "heartbeat"
  /\ types[Len(types)] = "session_end"

\* C5: at the end of the scenario the events of the session are video_ready,
\* play, buffering_start, buffering_end, one or more heartbeat, session_end,
\* and session_end reports total_buffering_time = StallLength.
C5_ScenarioEvents ==
  ScnDone =>
    \E s \in Opened :
      /\ ScnExpected(TypesOf(s))
      /\ \A i \in OfType("session_end") : log[i].sid = s => log[i].d[2] = StallLength

\* C6: if a fatal engine error occurs before manifest-parsed, the player holds
\* no session id and no session_end with non-zero play metrics is emitted.
C6_NoSessionOnEarlyFatal ==
  (\E e \in DOMAIN engines : engines[e].fatal /\ ~engines[e].parsed) =>
    /\ sessionId = 0
    /\ \A i \in OfType("session_end") : log[i].d[1] = 0

\* the run of buffering_start events that ends the buffering events of the log
Stalls == SelectSeq(log, LAMBDA e : e.type \in {"buffering_start", "buffering_end"})

\* C7: of two waiting notifications with no canplay between them the second
\* is ignored: the open window keeps the start timestamp of the first.
C7_SecondWaitingIgnored ==
  (/\ Len(Stalls) >= 2
   /\ Stalls[Len(Stalls)].type = "buffering_start"
   /\ Stalls[Len(Stalls) - 1].type = "buffering_start") =>
    analytics.bufferingStart = RefOpenWindow

\* C8: a level-switched notification for level L yields a quality_change
\* event carrying level = L and the bitrate of levels[L].
C8_QualityChangePayload ==
  [][\A e \in DOMAIN engines, L \in LevelIdx :
       (LevelSwitched(e, L) /\ engines[e].tsid # 0) =>
         /\ Len(log') = Len(log) + 1
         /\ log'[Len(log')].type = "quality_change"
         /\ log'[Len(log')].sid = engines[e].tsid
         /\ log'[Len(log')].d = <<L, LevelBitrate[L + 1]>>]_vars

C8_Witness ==
  \E i \in OfType("quality_change") : log[i].d = <<2, 2500000>>

\* C9: replaying the events classified so far through the reference
\* aggregator gives the live totalEvents and bufferingTime.
C9_ReplayMatchesLive ==
  /\ analytics.totalEvents = Len(log)
  /\ analytics.bufferingTime = Replay(log, 0, 0).total

\* C10: after a session_end event of a session no further analytics event
\* is emitted for that session.
C10_NothingAfterSessionEnd ==
  \A i \in OfType("session_end") :
    \A j \in DOMAIN log : j > i => log[j].sid # log[i].sid

\* C11: when the asset lookup answers with a status other than ready, no
\* session-open request is issued, no stream engine or native listener is
\* created, and (the component being mounted) the error state is set; while
\* that error stands the initialization is over and no engine is alive.
C11_NotReadyStopsInit ==
  /\ [](error = "not_ready" => (initPc = "done" /\ Alive = {}))
  /\ [][AssetResp("processing") =>
          /\ initPc' = "done"
          /\ nextSid' = nextSid
          /\ engines' = engines /\ hlsRef' = hlsRef /\ nativeLsn' = nativeLsn
          /\ (mounted => error' = "not_ready")]_vars

C11_Witness ==
  /\ error = "not_ready"
  /\ mounted /\ ~dirty /\ ~videoShown

\* a media-element notification reaches its handler
MediaNotified == NotifyMedia \/ NotifyControls \/ NotifyBuffer

\* C12: a failed analytics POST is swallowed: the step that handles the
\* failure changes neither the session id, nor the error state, nor the
\* analytics aggregates, nor the attached listeners; and once a failure has
\* been caught, every media notification of the session still issues its event.
C12_PostFailureSwallowed ==
  /\ [][\A i \in inflight : PostDone(i, FALSE) =>
           UNCHANGED <<sessionId, error, analytics, lsn, rSid, engines, nativeLsn>>]_vars
  /\ [][(caught.len # 0 /\ MediaNotified) =>
           /\ Len(log') = Len(log) + 1
           /\ log'[Len(log')].sid = rSid]_vars

\* a POST of a session failed and a later event of that session was issued
C12_Witness ==
  /\ caught.len # 0
  /\ error = ""
  /\ \E j \in DOMAIN log :
       j > caught.len /\ log[j].sid = caught.sid /\ log[j].type = "buffering_end"

\* C13: a non-fatal engine error, handled by a trackEvent that holds a
\* session id, issues an error analytics event and changes neither the
\* session id nor the error state.
C13_NonFatalErrorReported ==
  [][\A e \in DOMAIN engines :
       (EngineError(e, FALSE) /\ engines[e].tsid # 0) =>
         /\ Len(log') = Len(log) + 1
         /\ log'[Len(log')].type \in {"error", "video_error"}
         /\ sessionId' = sessionId
         /\ error' = error]_vars

\* C14: a fatal engine error while the mounted player holds a session id sets
\* the error state and issues an error event carrying that session id.
C14_FatalErrorReported ==
  [][\A e \in DOMAIN engines :
       (EngineError(e, TRUE) /\ mounted /\ sessionId # 0) =>
         /\ error' # ""
         /\ Len(log') = Len(log) + 1
         /\ log'[Len(log')].type = "error"
         /\ log'[Len(log')].sid = sessionId]_vars

\* the same, for engines whose handlers captured a session id: the event is
\* issued, with the id of the session before the current one
C14_ErrorCarriesCapturedId ==
  [][\A e \in DOMAIN engines :
       (EngineError(e, TRUE) /\ mounted /\ engines[e].tsid # 0) =>
         /\ error' # ""
         /\ Len(log') = Len(log) + 1
         /\ log'[Len(log')].type = "error"
         /\ log'[Len(log')].sid = engines[e].tsid
         /\ engines[e].tsid # sessionId]_vars

\* nothing is pending: no re-render, no initialization request, no POST
Quiescent == mounted /\ ~dirty /\ initPc = "done" /\ inflight = {}

\* C15: a fatal engine error ends the session it occurred in without an
\* unmount: once the mounted player has come to rest, a session_end has been
\* issued for the session of every engine that failed fatally.
C15_FatalErrorEndsSession ==
  Quiescent =>
    \A e \in DOMAIN engines :
      engines[e].fatal => \E i \in OfType("session_end") : log[i].sid = engines[e].sid

\* the events issued by the step
Issued == {i \in DOMAIN log' : i > Len(log)}

\* C16: every event issued while the media element is rendered carries the
\* element's position, playback rate, volume and mute flag as they are when
\* the handler runs, whatever their values.
C16_PayloadIsElementState ==
  [][(mounted' /\ videoShown /\ videoShown') =>
       \A i \in Issued :
         /\ log'[i].ct = pos'
         /\ log'[i].rate = elem'.rate
         /\ log'[i].vol = elem'.volume
         /\ log'[i].muted = elem'.muted
         /\ log'[i].ts = now']_vars

\* the same with volume 0 and rate 0 set aside: the envelope is exact there
C16_PayloadExactUnlessZero ==
  [][(mounted' /\ videoShown /\ videoShown') =>
       \A i \in Issued :
         /\ log'[i].ct = pos'
         /\ elem'.rate # 0 => log'[i].rate = elem'.rate
         /\ elem'.volume # 0 => log'[i].vol = elem'.volume
         /\ log'[i].muted = elem'.muted
         /\ log'[i].ts = now']_vars

\* C17: totalEvents counts the events classified, whatever becomes of their
\* POSTs: once every POST of the mounted player has completed, it equals the
\* number of events issued.
C17_CounterCountsClassified ==
  (mounted /\ inflight = {}) => analytics.totalEvents = Len(log)

\* what the code counts instead: never more than the POSTs completed
C17_CounterCountsDelivered ==
  analytics.totalEvents <= Len(log) - Cardinality(inflight)

\* C18: analytics.bufferingTime never decreases, whatever notifications,
\* re-renders and POST completions occur.
C18_BufferingTimeMonotone ==
  [][analytics'.bufferingTime >= analytics.bufferingTime]_vars

\* a stall window has been closed and counted
C18_Witness ==
  /\ analytics.bufferingTime > 0
  /\ OfType("buffering_end") # {}

\* C19: once a player with an active session has been unmounted, the
\* session_end issued by the teardown is the last event: no listener is left
\* to classify a later notification.
C19_SessionEndIsLast ==
  (~mounted /\ rSid # 0) =>
    /\ log # <<>>
    /\ log[Len(log)].type = "session_end"

\* the listeners of the effect at lines 184-245 are detached by the teardown
C19_MediaListenersDetached ==
  ~mounted => lsn = "none"

\* C20: events are handed to the network in the order the notifications are
\* handled: a step only appends to the events issued so far, a stall
\* notification appends its own event last, and the capture timestamps of the
\* events issued never step back, whatever POSTs are in flight.
C20_IssuedInOrder ==
  /\ [](\A i, j \in DOMAIN log : i < j => log[i].ts <= log[j].ts)
  /\ [][Len(log') >= Len(log) /\ SubSeq(log', 1, Len(log)) = log]_vars
  /\ [][Waiting =>
          /\ Len(log') = Len(log) + 1
          /\ log'[Len(log')].type = "buffering_start"
          /\ log'[Len(log')].ts = now]_vars
  /\ [][CanPlay =>
          /\ Len(log') = Len(log) + 1
          /\ log'[Len(log')].type = "buffering_end"
          /\ log'[Len(log')].ts = now]_vars

\* an event was issued while the POST of an earlier one was still in flight
C20_Witness ==
  \E i, j \in DOMAIN log :
    /\ i < j /\ i \in inflight
    /\ log[i].type = "buffering_start" /\ log[j].type = "buffering_end"
    /\ log[i].ts < log[j].ts

\* C21: onAnalytics is called with the events in the order they were
\* classified, however the POST completions interleave.
C21_CallbackInClassifiedOrder ==
  \A a, b \in DOMAIN notified : a < b => notified[a] < notified[b]

\* the engines whose MANIFEST_PARSED handler has run
Parsed == {e \in DOMAIN engines : engines[e].parsed}

\* a notification handled by handlers whose trackEvent captured no session id
DroppedNotification ==
  \/ \E e \in DOMAIN engines :
       /\ engines[e].tsid = 0
       /\ \/ ManifestParsed(e)
          \/ EngineError(e, TRUE)
          \/ \E level \in LevelIdx : LevelSwitched(e, level)
  \/ LoadedMetadata /\ \A k \in DOMAIN nativeLsn : nativeLsn[k] = 0

\* C22: a trackEvent without session id does nothing: the notification it
\* handles issues no POST, changes no aggregate and calls no onAnalytics;
\* nothing is issued while no session id is stored; and a dropped event is
\* not issued later (on the adaptive path the video_ready events are those
\* of the engines that parsed with a session id).
C22_NoSessionNoEvent ==
  /\ [][DroppedNotification => UNCHANGED <<log, inflight, notified, analytics>>]_vars
  /\ [](sessionId = 0 => (log = <<>> /\ notified = <<>> /\ analytics = Analytics0))
  /\ [](Strategy(mode) = "hls" =>
          Cardinality(OfType("video_ready"))
            = Cardinality({e \in Parsed : engines[e].tsid # 0}))

\* one engine's video_ready was dropped, a later engine's was issued
C22_Witness ==
  /\ \E e \in Parsed : engines[e].tsid = 0
  /\ \E e \in Parsed : engines[e].tsid # 0
  /\ Cardinality(OfType("video_ready")) = 1
  /\ notified # <<>>

\* C23: once the component has unmounted, and once no initialization is in
\* flight, every engine that was created but is not the current one has
\* been destroyed.
C23_EnginesReleased ==
  /\ (~mounted /\ initPc = "done" /\ stale = <<>>) => Alive = {}
  /\ (mounted /\ initPc = "done" /\ stale = <<>>) => Alive \subseteq {hlsRef}

\* the number of onReady calls made by MANIFEST_PARSED handlers
ReadyCalls == Cardinality(Parsed)

\* C24: with fixed inputs, readiness is signalled at most once during one
\* mount (adaptive path).
C24_ReadyAtMostOnce == Strategy(mode) = "hls" => ReadyCalls <= 1

\* C25: when the session-open request fails there is no partial session: no
\* session id is stored, no media listeners are attached, no engine was
\* created and no analytics event was issued.
C25_FailedOpenLeavesNothing ==
  [][SessionFailed =>
       /\ sessionId' = 0 /\ lsn' = "none"
       /\ engines' = <<>> /\ log' = <<>>]_vars

\* the same for the first session-open request of a mount
C25_FirstOpenFailedLeavesNothing ==
  [][(SessionFailed /\ nextSid = 1) =>
       /\ sessionId' = 0 /\ lsn' = "none"
       /\ engines' = <<>> /\ log' = <<>>]_vars

\* C26: the session_end emitted at teardown carries as total_events the
\* number of events classified for the session before it, those whose POST
\* is still in flight included.
C26_SessionEndCountsClassified ==
  [][(Unmount /\ rSid # 0) =>
       log'[Len(log')].d[3]
         = Cardinality({j \in DOMAIN log : log[j].sid = rSid})]_vars

\* a session-open response handled with the video element present: the
\* strategy selection of this initializeVideo run executes
Selecting ==
  /\ mounted /\ videoShown
  /\ SessionOpened \/ \E k \in DOMAIN stale : StaleSessionOpened(k)

\* C27: strategy selection has exactly one outcome per load: an engine is
\* created iff the engine is supported; the element's source is assigned
\* (native path) iff the engine is unsupported and the element can play
\* HLS; otherwise the unsupported error is set and nothing is attached.
C27_ExactlyOneStrategy ==
  [][Selecting =>
       LET engineUsed == engines' # engines
           nativeUsed == nativeLsn' # nativeLsn
           refused    == error' = "unsupported"
       IN /\ engineUsed <=> mode.hls
          /\ nativeUsed <=> (~mode.hls /\ mode.native)
          /\ refused    <=> (~mode.hls /\ ~mode.native)
          /\ engineUsed => Len(engines') = Len(engines) + 1
          /\ nativeUsed => Len(nativeLsn') = Len(nativeLsn) + 1]_vars

\* both strategies were available and the engine was used
C27_Witness ==
  /\ mode.hls /\ mode.native
  /\ engines # <<>> /\ nativeLsn = <<>> /\ error = ""

\* the runtime on which native playback is selected
NativePath == ~mode.hls /\ mode.native

\* C28: on the native playback path no quality_change event is ever
\* emitted: no engine exists whose LEVEL_SWITCHED handler could issue one.
C28_NativeNeverQualityChange ==
  NativePath => (OfType("quality_change") = {} /\ engines = <<>>)

\* native playback has reported readiness for a session
C28_Witness ==
  /\ NativePath
  /\ nativeLsn # <<>>
  /\ OfType("video_ready") # {}

\* the heartbeat events a step adds to the log
NewBeats == {i \in DOMAIN log' \ DOMAIN log : log'[i].type = "heartbeat"}

\* C29: a heartbeat is issued only by the handling of a timeupdate
\* notification whose whole-second position is a multiple of the interval,
\* and one timeupdate issues at most one heartbeat.
C29_HeartbeatOnlyOnBoundary ==
  /\ [][NewBeats # {} =>
          /\ \E adv \in 0 .. 1 : TimeUpdate(adv)
          /\ pos' % HeartbeatInterval = 0]_vars
  /\ [][(\E adv \in 0 .. 1 : TimeUpdate(adv)) =>
          /\ Cardinality(NewBeats) <= 1
          /\ Len(log') <= Len(log) + 1
          /\ pos' % HeartbeatInterval # 0 => log' = log]_vars

\* a timeupdate at position 0 issued a heartbeat, and the timeupdate that
\* moved the position to 1 issued none
C29_Witness ==
  /\ Cardinality(OfType("heartbeat")) = 1
  /\ OfType("seeking") = {}
  /\ pos = 1 /\ notes = 2

\* C30: closing a buffering window is idempotent: a canplay handled when the
\* window has already been closed adds nothing to bufferingTime, also when
\* the handlers have not been re-bound since the window was closed.
C30_CloseIsIdempotent ==
  [][(CanPlay /\ analytics.bufferingStart = 0) =>
       analytics'.bufferingTime = analytics.bufferingTime]_vars

\* the same once the component has re-rendered after the closing canplay
C30_CloseIsIdempotentAfterRender ==
  [][(CanPlay /\ analytics.bufferingStart = 0 /\ ~anDirty) =>
       analytics'.bufferingTime = analytics.bufferingTime]_vars

\* the session-open requests answered with an id, and those awaiting an answer
SessionsOpened == nextSid - 1
SessionsPending ==
  (IF initPc = "session" THEN 1 ELSE 0)
    + Cardinality({k \in DOMAIN stale : stale[k].pc = "session"})

\* C31: with unchanged props a mounted player issues one session-open
\* request: storing the returned id does not start initialization again.
C31_OneSessionOpen == SessionsOpened + SessionsPending <= 1

\* a re-render that commits nothing but the totalEvents count of delivered
\* events
DeliveryRender ==
  /\ Render
  /\ sessionId = rSid
  /\ analytics # rAn
  /\ [analytics EXCEPT !.totalEvents = 0] = [rAn EXCEPT !.totalEvents = 0]

\* C32: a successfully delivered event does not itself cause a further
\* event: the re-render that follows the delivery issues no analytics
\* event and starts no initialization request, so that the player comes to
\* rest once the notifications stop.
C32_DeliveryIssuesNothing ==
  [][DeliveryRender => (log' = log /\ initPc' = initPc)]_vars

\* engine e notifies one of the handlers that issue an event
EngineNotified(e) ==
  \/ ManifestParsed(e)
  \/ EngineError(e, TRUE)
  \/ \E level \in LevelIdx : LevelSwitched(e, level)

\* C33: an engine notification handled while the mounted player holds a
\* session id issues its event with that id: it is neither dropped nor
\* attributed to an earlier session.
C33_EngineEventsCarryCurrentId ==
  [][\A e \in DOMAIN engines :
       (EngineNotified(e) /\ mounted /\ sessionId # 0) =>
         /\ Len(log') = Len(log) + 1
         /\ log'[Len(log')].sid = sessionId]_vars

\* what the handlers do instead: the event carries the id captured when the
\* engine was created, which is never the current one, and is dropped when
\* that id is null
C33_EngineEventsCarryCapturedId ==
  [][\A e \in DOMAIN engines :
       (EngineNotified(e) /\ mounted) =>
         /\ engines[e].tsid # sessionId
         /\ engines[e].tsid = 0 => log' = log
         /\ engines[e].tsid # 0 =>
              (Len(log') = Len(log) + 1 /\ log'[Len(log')].sid = engines[e].tsid)]_vars

\* C34: a canplay handled while a window is open closes it: the window's
\* duration is added to bufferingTime and bufferingStart is cleared, also
\* when the handlers have not been re-bound since the waiting.
C34_CanPlayClosesOpenWindow ==
  [][(CanPlay /\ mounted /\ analytics.bufferingStart # 0) =>
       /\ analytics'.bufferingStart = 0
       /\ analytics'.bufferingTime
            = analytics.bufferingTime + (now - analytics.bufferingStart)]_vars

\* the same once the component has re-rendered after the waiting
C34_CanPlayClosesRenderedWindow ==
  [][(CanPlay /\ mounted /\ analytics.bufferingStart # 0
        /\ rAn.bufferingStart = analytics.bufferingStart) =>
       /\ analytics'.bufferingStart = 0
       /\ analytics'.bufferingTime
            = analytics.bufferingTime + (now - analytics.bufferingStart)]_vars

\* the events of the given type and session issued before event i
Before(i, type, sid) ==
  {j \in 1 .. (i - 1) : log[j].type = type /\ log[j].sid = sid}

\* C35: every buffering_end event follows a buffering_start event of its
\* session that no earlier buffering_end has matched: a canplay with no
\* open window issues no event.
C35_BufferingEndMatchesStart ==
  \A i \in OfType("buffering_end") :
    Cardinality(Before(i, "buffering_start", log[i].sid))
      > Cardinality(Before(i, "buffering_end", log[i].sid))

\* C36: no operation modifies analytics.playTime, so every session_end
\* event reports total_play_time = 0, however far playback went.
C36_PlayTimeStaysZero ==
  /\ analytics.playTime = Analytics0.playTime
  /\ rAn.playTime = 0
  /\ \A i \in OfType("session_end") : log[i].d[1] = 0

\* playback advanced, a heartbeat was issued, and the session was ended
C36_Witness ==
  /\ pos > 0
  /\ OfType("heartbeat") # {}
  /\ \E i \in OfType("session_end") : log[i].sid # 0 /\ i > 1

\* C37: HLSPlayer holds at most one Hls instance that is not destroyed,
\* whatever loads and re-renders occurred.
C37_AtMostOneInstance == Cardinality(AliveInstances) <= 1

\* the same for a load made from a render that holds the current instance
C37_RenderedLoadKeepsOne ==
  [][(LoadAndPlay /\ committed.hlsInstance = player.hlsInstance
        /\ AliveInstances \subseteq {player.hlsInstance}) =>
       (Cardinality(AliveInstances') <= 1
          /\ AliveInstances' \subseteq {player'.hlsInstance})]_vars

\* the stream the player currently holds: the source of the instance in
\* hlsInstance if it is not destroyed, the element's src on the native path
LoadedSource ==
  CASE Strategy(mode) = "hls" ->
         IF player.hlsInstance \in AliveInstances
           THEN instances[player.hlsInstance].url ELSE ""
    [] Strategy(mode) = "native" -> media.src
    [] OTHER -> ""

\* C38: while HLSPlayer is mounted with no load in progress, a non-empty
\* currentUrl names the stream the player currently holds.
C38_CurrentUrlIsLoadedSource ==
  (playerUp /\ ~player.isLoading /\ player.currentUrl # "") =>
    player.currentUrl = LoadedSource

\* C39: loadAndPlay with an empty or whitespace-only URL sets the
\* validation error and changes nothing else: no instance is created or
\* destroyed and isLoading, currentUrl and the element are unchanged.
C39_BlankUrlOnlySetsError ==
  [][(LoadAndPlay /\ committed.hlsUrl \in {"", " "}) =>
       /\ player' = [player EXCEPT !.error = "invalid_url"]
       /\ UNCHANGED <<instances, media, committed, playerUp>>]_vars

\* a whitespace-only URL was refused while a loaded stream's instance lives on
C39_Witness ==
  /\ player.error = "invalid_url"
  /\ committed.hlsUrl = " "
  /\ player.currentUrl # ""
  /\ AliveInstances # {}

\* C40: after a load with a non-blank URL isLoading returns to false on
\* every path: at once on the native path and when the runtime supports
\* neither strategy, and on the engine path once the instance has emitted
\* MANIFEST_PARSED or ERROR (the component staying mounted).
C40_LoadingEnds ==
  /\ (playerUp /\ player.isLoading) ~> (~player.isLoading \/ ~playerUp)
  /\ [][(LoadAndPlay /\ ~Blank(committed.hlsUrl)) =>
          (player'.isLoading <=> Strategy(mode) = "hls")]_vars
  /\ [][\A i \in DOMAIN instances :
          (InstanceSettles(i) /\ playerUp) => ~player'.isLoading]_vars

\* a load on the engine path has ended with an error of its instance
C40_Witness ==
  /\ playerUp /\ ~player.isLoading
  /\ player.hlsInstance \in AliveInstances
  /\ instances[player.hlsInstance].emitted
  /\ ~instances[player.hlsInstance].parsed

====
